---- MODULE Spec2Model ----
(***************************************************************************)
(* Shanghai, an asyncio IRC bot: the priority event dispatcher of          *)
(* shanghai/event.py (_PrioritizedSetList, EventDecorator and              *)
(* EventDispatcher), the added attributes of shanghai/util.py              *)
(* (ShadowAttributesMixin), the message codec of shanghai/irc/message.py   *)
(* (Prefix, Message) and the CTCP codec of shanghai/plugins/ctcp.py,       *)
(* modelled as state machines over one set of variables.                   *)
(*                                                                         *)
(* One dispatcher owns event_map.  Callers outside a dispatch call         *)
(* register, unregister and dispatch.  A dispatch walks the tier list of   *)
(* its event with a list iterator, creates one task per handler of the     *)
(* tier, awaits asyncio.gather over them, reads the results and goes on.   *)
(* While the dispatch is suspended in gather the handler tasks run on the  *)
(* same event loop, interleaved at their suspension points; a handler may  *)
(* itself call register and unregister.                                    *)
(*                                                                         *)
(* Scope: one dispatch is in flight at a time (no nested dispatch); the    *)
(* calls a handler makes concern the event being dispatched; the order in  *)
(* which a set yields its elements is arbitrary; a handler ends by         *)
(* returning None or ReturnValue.EAT or by raising an Exception.  The      *)
(* codec's functions are applied to inputs drawn from bounded sets of      *)
(* strings over the characters the functions look for; numerals are kept   *)
(* as commands (the ServerReply table is not part of the model).           *)
(***************************************************************************)
EXTENDS Integers, Sequences, FiniteSets, TLC

\* ---------------------------------------------------------------- bounds

\* The coroutine functions 1..NumHandlers are the handlers of the event that
\* is dispatched (Spec).
NumHandlers == 2
\* The coroutine functions 1..NumCallables are registered under "message", and
\* 1..NumRawLine of them under "raw_line" as well, when only the registration
\* table is looked at (SpecTable).
NumCallables == 3
NumRawLine == 1
\* A dispatch sees at most this many register/unregister calls by its handlers.
MaxInflight == 1
\* The coroutine functions 1..NumPlugins are registered through the decorator
\* or through register, under names of either namespace (SpecNamespace).
NumPlugins == 2
\* The values 1..NumValues are what plugins store as capabilities (SpecContext).
NumValues == 2
\* The longest tag value that is escaped and unescaped (SpecEscape).
MaxValueLen == 3
\* The longest name, ident and host of a prefix (SpecPrefix).
MaxPartLen == 1
\* The longest line that is parsed (SpecLine).
MaxLineLen == 4
\* The longest second parameter of a message CTCP is extracted from (SpecExtract).
MaxPayloadLen == 5
\* The longest command and the longest text that are wrapped (SpecWrap).
MaxTextLen == 2

\* ------------------------------------------------------ program constants

\* class Priority
PRE_CORE == 5
CORE == 0
DEFAULT == -10

\* A callable that is no coroutine function (not defined with `async def`).
PlainCallable == 0

Handlers == 1..NumHandlers
Coroutines == 1..NumCallables
Priorities == {PRE_CORE, CORE, DEFAULT}

\* Event names used as keys of event_map (two members of NetworkEventName).
Names == {"message", "raw_line"}

\* class NetworkEventName and class GlobalEventName, by their values
NetworkEventName == {"connected", "disconnected", "close_request", "message", "raw_line"}
GlobalEventName == {"init_network_context"}
\* The event that is dispatched.
Dispatched == {"message"}

\* asyncio.iscoroutinefunction
iscoroutinefunction(c) == c # PlainCallable

\* What a handler's task ends with: a return value, or a raised Exception
\* (gather(return_exceptions=True) hands the exception back as the result).
ReturnValues == {"None", "EAT"}
Results == ReturnValues \cup {"Exc"}

\* ------------------------------------------------- _PrioritizedSetList

Tier(p, s) == [prio |-> p, set |-> s]

\* list.insert(i, x), i counted from 1
InsertAt(list, i, x) ==
    SubSeq(list, 1, i - 1) \o <<x>> \o SubSeq(list, i, Len(list))

\* del list[i], i counted from 1
DeleteAt(list, i) ==
    SubSeq(list, 1, i - 1) \o SubSeq(list, i + 1, Len(list))

\* __contains__: any(obj in set_ for _, set_ in self)
Contains(list, obj) == \E i \in 1..Len(list) : obj \in list[i].set

\* add's loop without the `i = i + 1` of its else branch: when the loop runs
\* out, insert at the index of the last element (list.insert(-1, x) on an
\* empty list inserts at the front).
RECURSIVE add_loop_no_else(_, _, _, _)
add_loop_no_else(list, priority, obj, i) ==
    IF i > Len(list)
    THEN InsertAt(list, IF Len(list) = 0 THEN 1 ELSE Len(list), Tier(priority, {obj}))
    ELSE IF priority > list[i].prio THEN InsertAt(list, i, Tier(priority, {obj}))
    ELSE IF priority = list[i].prio THEN [list EXCEPT ![i].set = @ \cup {obj}]
    ELSE add_loop_no_else(list, priority, obj, i + 1)

\* The for loop of add, looking at element i: break and insert before the
\* first tier of lower priority, join the tier of equal priority, else (the
\* loop ran out) insert after the last element.
RECURSIVE add_loop(_, _, _, _)
add_loop(list, priority, obj, i) ==
    IF i > Len(list) THEN InsertAt(list, i, Tier(priority, {obj}))
    ELSE IF priority > list[i].prio THEN InsertAt(list, i, Tier(priority, {obj}))
    ELSE IF priority = list[i].prio THEN [list EXCEPT ![i].set = @ \cup {obj}]
    ELSE add_loop(list, priority, obj, i + 1)

\* add without its `if obj in self` check
add_unchecked(list, priority, obj) ==
    [ok |-> TRUE, list |-> add_loop(list, priority, obj, 1)]

\* add: ok = FALSE stands for the ValueError "has already been added"
add(list, priority, obj) ==
    IF Contains(list, obj)
    THEN [ok |-> FALSE, list |-> list]
    ELSE [ok |-> TRUE, list |-> add_loop(list, priority, obj, 1)]

\* remove's loop deleting the tier it found obj in, emptied or not
RECURSIVE remove_loop_del(_, _, _)
remove_loop_del(list, obj, i) ==
    IF i > Len(list) THEN [ok |-> FALSE, list |-> list]
    ELSE IF obj \in list[i].set THEN [ok |-> TRUE, list |-> DeleteAt(list, i)]
    ELSE remove_loop_del(list, obj, i + 1)

\* remove's loop without the `if not set_: del self.list[i]`
RECURSIVE remove_loop_keep(_, _, _)
remove_loop_keep(list, obj, i) ==
    IF i > Len(list) THEN [ok |-> FALSE, list |-> list]
    ELSE IF obj \in list[i].set
    THEN [ok |-> TRUE, list |-> [list EXCEPT ![i].set = @ \ {obj}]]
    ELSE remove_loop_keep(list, obj, i + 1)

\* The for loop of remove, looking at element i: the first tier that holds
\* obj loses it, and is deleted when that empties it; running out of tiers
\* is the ValueError "can not be found".
RECURSIVE remove_loop(_, _, _)
remove_loop(list, obj, i) ==
    IF i > Len(list) THEN [ok |-> FALSE, list |-> list]
    ELSE IF obj \in list[i].set
    THEN [ok |-> TRUE,
          list |-> IF list[i].set \ {obj} = {}
                   THEN DeleteAt(list, i)
                   ELSE [list EXCEPT ![i].set = @ \ {obj}]]
    ELSE remove_loop(list, obj, i + 1)

remove(list, obj) == remove_loop(list, obj, 1)

\* ----------------------------------------------------------------- state

VARIABLES
    event_map,   \* EventDispatcher.event_map: name -> tier list, keys created on access
    last,        \* the register/unregister call an outside caller made in this step, and its outcome
    pc,          \* "idle" | "gather" (dispatch suspended in gather) | "returned"
    dname,       \* dispatch: its argument name
    it,          \* dispatch: the list iterator's index (elements already yielded)
    priority,    \* dispatch: loop variable priority
    handlers,    \* dispatch: the elements of the set object the loop variable handlers refers to
    linked,      \* dispatch: whether that set object is still an element of the tier list
    tasks,       \* dispatch: the tasks created so far, in creation order
    round,       \* dispatch: number of tiers started (tasks of the current gather carry it)
    ret,         \* what the last dispatch returned: "None" | "EAT" ("-" before it returns)
    obs,         \* observations of the dispatch: the tier list at its start, and its handlers'
                 \* successful calls (registers, unregisters, the handlers they were about)
    ever,        \* names that ever had a handler registered
    allowed_names,     \* EventDecorator.allowed_names of the dispatcher's decorator
    added_attributes,  \* ShadowAttributesMixin._added_attributes of a context: name -> value
    call,        \* the call made on the context in this step, and its outcome
    fn,          \* codec: the functions applied so far to arg, in order
    arg,         \* codec: the input
    out,         \* codec: what the last function applied returned
    log          \* dispatch: what its results loops logged: (level, task)

vars == <<event_map, last, pc, dname, it, priority, handlers, linked, tasks, round, ret, obs, ever,
          allowed_names, added_attributes, call, fn, arg, out, log>>

\* What the dispatcher's own operations leave alone.
others == <<allowed_names, added_attributes, call, fn, arg, out>>

NoCall == [op |-> "-", name |-> "-", obj |-> 0, prio |-> 0, ok |-> TRUE]
NoObs == [table0 |-> <<>>, map0 |-> <<>>, nreg |-> 0, nunreg |-> 0, touched |-> {}]

\* EventDispatcher.__init__: an empty event_map, nothing dispatched yet.
InitDispatcher ==
    /\ event_map = <<>>
    /\ last = NoCall
    /\ pc = "idle"
    /\ dname = "message"
    /\ it = 0
    /\ priority = 0
    /\ handlers = {}
    /\ linked = FALSE
    /\ tasks = <<>>
    /\ round = 0
    /\ ret = "-"
    /\ obs = NoObs
    /\ ever = {}
    /\ log = {}

\* ShadowAttributesMixin.__init__: self._added_attributes = dict()
InitContext ==
    /\ added_attributes = <<>>
    /\ call = [op |-> "-", name |-> "-", value |-> <<"None", 0>>, ok |-> TRUE]

\* No codec function was applied.
InitCodec ==
    /\ fn = <<>>
    /\ arg = <<>>
    /\ out = <<>>

\* A per-network dispatcher and a context, as constructed.
Init ==
    /\ InitDispatcher
    /\ allowed_names = NetworkEventName
    /\ InitContext
    /\ InitCodec

\* defaultdict(_PrioritizedSetList): event_map[name] creates the key
Lookup(em, name) == IF name \in DOMAIN em THEN em[name] ELSE <<>>
Touch(em, name) == IF name \in DOMAIN em THEN em ELSE em @@ (name :> <<>>)
Store(em, name, list) == [Touch(em, name) EXCEPT ![name] = list]

\* ------------------------------------------------------- EventDispatcher

\* register: the coroutine-function check, then event_map[name].add(...)
register(em, name, coroutine, prio) ==
    IF ~iscoroutinefunction(coroutine)
    THEN [ok |-> FALSE, em |-> em]
    ELSE LET r == add(Lookup(em, name), prio, coroutine)
         IN  [ok |-> r.ok, em |-> Store(em, name, r.list)]

\* unregister: event_map[name].remove(coroutine)
unregister(em, name, coroutine) ==
    LET r == remove(Lookup(em, name), coroutine)
    IN  [ok |-> r.ok, em |-> Store(em, name, r.list)]

\* The orders in which iterating a set can yield its elements.
Orders(S) ==
    {s \in [1..Cardinality(S) -> S] : \A i, j \in DOMAIN s : i # j => s[i] # s[j]}

\* tasks = [asyncio.ensure_future(h(*args)) for h in handlers]
NewTasks(order, prio, rnd) ==
    [i \in DOMAIN order |->
        [h |-> order[i], prio |-> prio, round |-> rnd, st |-> "pending", res |-> "None"]]

\* The tasks of the gather the dispatch is suspended in.
Current(ts, rnd) == {i \in DOMAIN ts : ts[i].round = rnd}

\* A dispatch that does not wait for the tasks of the tier
GatherNoWait(ts, rnd) == TRUE

\* asyncio.gather(*tasks, return_exceptions=True) completes when every task has.
GatherDone(ts, rnd) == \A i \in Current(ts, rnd) : ts[i].st = "done"

\* The results loop: zip(handlers, tasks, results) ends with its shortest
\* argument, and handlers is the set as it is now, so only the first
\* min(len(handlers), len(tasks)) results are looked at.
Zipped(ts, rnd, hs) ==
    {i \in Current(ts, rnd) :
        Cardinality({j \in Current(ts, rnd) : j <= i}) <= Cardinality(hs)}

eaten(ts, rnd, hs) == \E i \in Zipped(ts, rnd, hs) : ts[i].res = "EAT"

\* What handlers return besides None and ReturnValue.EAT: ReturnValue.NONE
\* ("NONE"), True, 1 and 2.
OtherValues == {"NONE", "True", "1", "2"}

\* Python's ==, for the values above: True == 1; an Enum member equals
\* nothing but itself.
Equal(a, b) == a = b \/ {a, b} = {"True", "1"}

\* ReturnValue._all.value: the class body's `_all = (EAT, NONE)` is
\* evaluated where EAT is True and NONE is None, so it is (True, None).
ALL_VALUE == <<"True", "None">>

\* result not in ReturnValue._all.value
not_in_all(result) == \A k \in 1..Len(ALL_VALUE) : ~Equal(result, ALL_VALUE[k])

\* The if/elif chain of the results loop, for the result of one task: the
\* level it is logged at, "-" when nothing is logged.
level(result) ==
    IF result = "Exc" THEN "exception"
    ELSE IF result = "EAT" THEN "debug"
    ELSE IF not_in_all(result) THEN "warning"
    ELSE "-"

\* What the results loop of a tier logs.
Logged(ts, rnd, hs) ==
    {<<level(ts[i].res), i>> : i \in {j \in Zipped(ts, rnd, hs) : level(ts[j].res) # "-"}}

\* dispatch returns: its locals are gone, the tasks stay for observation
Return(value) ==
    /\ pc' = "returned"
    /\ ret' = value
    /\ it' = 0
    /\ priority' = 0
    /\ handlers' = {}
    /\ linked' = FALSE

\* The head of the for loop over the tier list: the list iterator yields the
\* element at its index, if there is one, and the body runs up to the await;
\* else the loop is over and dispatch returns None.
Iterate(list, i, ts, rnd) ==
    IF i < Len(list)
    THEN \E order \in Orders(list[i + 1].set) :
            /\ pc' = "gather"
            /\ ret' = "-"
            /\ it' = i + 1
            /\ priority' = list[i + 1].prio
            /\ handlers' = list[i + 1].set
            /\ linked' = TRUE
            /\ round' = rnd + 1
            /\ tasks' = ts \o NewTasks(order, list[i + 1].prio, rnd + 1)
    ELSE /\ Return("None")
         /\ round' = rnd
         /\ tasks' = ts

\* The loop variable handlers after a change of the tier list: the same set
\* object while its tier is in the list, an emptied set once it was deleted.
Relink(list) ==
    IF linked /\ \E i \in 1..Len(list) : list[i].prio = priority
    THEN /\ linked' = TRUE
         /\ handlers' = (CHOOSE t \in {list[i] : i \in 1..Len(list)} : t.prio = priority).set
    ELSE /\ linked' = FALSE
         /\ handlers' = {}

Called(op, name, obj, prio, ok) ==
    [op |-> op, name |-> name, obj |-> obj, prio |-> prio, ok |-> ok]

\* A caller outside any dispatch; what the last dispatch left behind is dropped.
Outside ==
    /\ pc # "gather"
    /\ pc' = "idle"
    /\ ret' = "-"
    /\ tasks' = <<>>
    /\ round' = 0
    /\ obs' = NoObs
    /\ log' = {}
    /\ UNCHANGED <<dname, it, priority, handlers, linked>>
    /\ UNCHANGED others

Register(name, coroutine, prio) ==
    /\ Outside
    /\ LET r == register(event_map, name, coroutine, prio)
       IN  /\ event_map' = r.em
           /\ last' = Called("register", name, coroutine, prio, r.ok)
           /\ ever' = IF r.ok THEN ever \cup {name} ELSE ever

Unregister(name, coroutine) ==
    /\ Outside
    /\ LET r == unregister(event_map, name, coroutine)
       IN  /\ event_map' = r.em
           /\ last' = Called("unregister", name, coroutine, 0, r.ok)
    /\ UNCHANGED ever

\* Not the program: dispatch without the `name not in self.event_map` test,
\* where reading event_map[name] makes the defaultdict create the key.
DispatchCreatesKey(name) ==
    /\ pc # "gather"
    /\ dname' = name
    /\ last' = NoCall
    /\ obs' = [NoObs EXCEPT !.table0 = Lookup(event_map, name), !.map0 = event_map]
    /\ event_map' = Touch(event_map, name)
    /\ Iterate(Lookup(event_map, name), 0, <<>>, 0)
    /\ log' = {}
    /\ UNCHANGED ever
    /\ UNCHANGED others

\* dispatch(name), up to its first await or its return
Dispatch(name) ==
    /\ pc # "gather"
    /\ dname' = name
    /\ last' = NoCall
    /\ obs' = [NoObs EXCEPT !.table0 = Lookup(event_map, name), !.map0 = event_map]
    /\ IF name \notin DOMAIN event_map
       THEN /\ Return("None")
            /\ round' = 0
            /\ tasks' = <<>>
       ELSE Iterate(event_map[name], 0, <<>>, 0)
    /\ log' = {}
    /\ UNCHANGED <<event_map, ever>>
    /\ UNCHANGED others

\* The event loop runs the tasks' first steps in the order of their creation.
HandlerStart(i) ==
    /\ i \in DOMAIN tasks
    /\ tasks[i].st = "pending"
    /\ \A j \in 1..(i - 1) : tasks[j].st # "pending"
    /\ tasks' = [tasks EXCEPT ![i].st = "running"]
    /\ last' = NoCall
    /\ UNCHANGED <<event_map, pc, dname, it, priority, handlers, linked, round, ret, obs, ever>>
    /\ UNCHANGED <<others, log>>

\* A running handler registers a handler for the event being dispatched.
HandlerRegister(i, coroutine, prio) ==
    /\ i \in DOMAIN tasks
    /\ tasks[i].st = "running"
    /\ obs.nreg + obs.nunreg < MaxInflight
    /\ LET r == register(event_map, dname, coroutine, prio)
       IN  /\ event_map' = r.em
           /\ last' = NoCall
           /\ obs' = IF r.ok
                     THEN [obs EXCEPT !.nreg = @ + 1, !.touched = @ \cup {coroutine}]
                     ELSE obs
           /\ ever' = IF r.ok THEN ever \cup {dname} ELSE ever
           /\ Relink(Lookup(r.em, dname))
    /\ UNCHANGED <<pc, dname, it, priority, tasks, round, ret>>
    /\ UNCHANGED <<others, log>>

\* A running handler unregisters a handler (itself or another) of the event.
HandlerUnregister(i, coroutine) ==
    /\ i \in DOMAIN tasks
    /\ tasks[i].st = "running"
    /\ obs.nreg + obs.nunreg < MaxInflight
    /\ LET r == unregister(event_map, dname, coroutine)
       IN  /\ event_map' = r.em
           /\ last' = NoCall
           /\ obs' = IF r.ok
                     THEN [obs EXCEPT !.nunreg = @ + 1, !.touched = @ \cup {coroutine}]
                     ELSE obs
           /\ Relink(Lookup(r.em, dname))
    /\ UNCHANGED <<pc, dname, it, priority, tasks, round, ret, ever>>
    /\ UNCHANGED <<others, log>>

HandlerReturn(i, value) ==
    /\ i \in DOMAIN tasks
    /\ tasks[i].st = "running"
    /\ tasks' = [tasks EXCEPT ![i].st = "done", ![i].res = value]
    /\ last' = NoCall
    /\ UNCHANGED <<event_map, pc, dname, it, priority, handlers, linked, round, ret, obs, ever>>
    /\ UNCHANGED <<others, log>>

\* Not the program: a handler whose failure cancels the tasks of its tier
\* that have not finished.
HandlerRaiseCancels(i) ==
    /\ i \in DOMAIN tasks
    /\ tasks[i].st = "running"
    /\ tasks' = [j \in DOMAIN tasks |->
                    IF j = i \/ (tasks[j].round = tasks[i].round /\ tasks[j].st # "done")
                    THEN [tasks[j] EXCEPT !.st = "done", !.res = "Exc"]
                    ELSE tasks[j]]
    /\ last' = NoCall
    /\ UNCHANGED <<event_map, pc, dname, it, priority, handlers, linked, round, ret, obs, ever>>
    /\ UNCHANGED <<others, log>>

HandlerRaise(i) ==
    /\ i \in DOMAIN tasks
    /\ tasks[i].st = "running"
    /\ tasks' = [tasks EXCEPT ![i].st = "done", ![i].res = "Exc"]
    /\ last' = NoCall
    /\ UNCHANGED <<event_map, pc, dname, it, priority, handlers, linked, round, ret, obs, ever>>
    /\ UNCHANGED <<others, log>>

\* gather is done: the results loop, then `if eaten: return` or the next tier
TierDone ==
    /\ pc = "gather"
    /\ GatherDone(tasks, round)
    /\ last' = NoCall
    /\ log' = log \cup Logged(tasks, round, handlers)
    /\ IF eaten(tasks, round, handlers)
       THEN /\ Return("EAT")
            /\ UNCHANGED <<tasks, round>>
       ELSE Iterate(Lookup(event_map, dname), it, tasks, round)
    /\ UNCHANGED <<event_map, dname, obs, ever>>
    /\ UNCHANGED others

\* The most tasks one dispatch can create: a tier is started once for each
\* position of the list iterator, and the list has at most NumHandlers tiers.
TaskSlots == 1..(NumHandlers * NumHandlers)

Next ==
    \/ \E n \in Dispatched, c \in {PlainCallable} \cup Handlers, p \in Priorities :
            Register(n, c, p)
    \/ \E n \in Dispatched, c \in Handlers : Unregister(n, c)
    \/ \E n \in Dispatched : Dispatch(n)
    \/ \E i \in TaskSlots : HandlerStart(i)
    \/ \E i \in TaskSlots, c \in Handlers, p \in Priorities : HandlerRegister(i, c, p)
    \/ \E i \in TaskSlots, c \in Handlers : HandlerUnregister(i, c)
    \/ \E i \in TaskSlots, v \in ReturnValues : HandlerReturn(i, v)
    \/ \E i \in TaskSlots : HandlerRaise(i)
    \/ TierDone

\* The dispatcher with outside callers, one event being dispatched, and
\* handlers that call register and unregister themselves.
Spec == Init /\ [][Next]_vars

\* What may be registered under a name when only the table is looked at.
Registrable(n) ==
    IF n = "message" THEN {PlainCallable} \cup Coroutines ELSE 0..NumRawLine

NextTable ==
    \/ \E n \in Names, p \in Priorities : \E c \in Registrable(n) : Register(n, c, p)
    \/ \E n \in Names : \E c \in Registrable(n) \ {PlainCallable} : Unregister(n, c)

\* The registration table under register and unregister calls alone.
SpecTable == Init /\ [][NextTable]_vars

NextReturn ==
    \/ \E n \in Dispatched, c \in Handlers, p \in Priorities : Register(n, c, p)
    \/ \E n \in Dispatched, c \in Handlers : Unregister(n, c)
    \/ \E n \in Dispatched : Dispatch(n)
    \/ \E i \in TaskSlots : HandlerStart(i)
    \/ \E i \in TaskSlots, v \in ReturnValues \cup OtherValues : HandlerReturn(i, v)
    \/ \E i \in TaskSlots : HandlerRaise(i)
    \/ TierDone

\* The dispatcher with handlers that return any value and leave the table
\* alone.
SpecReturn == Init /\ [][NextReturn]_vars

\* ------------------------------------------------------- EventDecorator

\* EventDecorator.__call__(name, priority)(coroutine): when allowed_names is
\* set (not None, not empty) a name outside it is a ValueError; else deco
\* registers the coroutine with the dispatcher.
decorator(em, allowed, name, coroutine, prio) ==
    IF allowed # {} /\ name \notin allowed
    THEN [ok |-> FALSE, em |-> em]
    ELSE register(em, name, coroutine, prio)

\* @dispatcher.decorator(name, priority) applied to a coroutine function
Decorate(name, coroutine, prio) ==
    /\ Outside
    /\ LET r == decorator(event_map, allowed_names, name, coroutine, prio)
       IN  /\ event_map' = r.em
           /\ last' = Called("decorator", name, coroutine, prio, r.ok)
           /\ ever' = IF r.ok THEN ever \cup {name} ELSE ever

\* GlobalEventDispatcher.__init__ and NetworkEventDispatcher.__init__: the
\* decorator's allowed_names are the names of the dispatcher's namespace.
InitNamespace ==
    /\ InitDispatcher
    /\ allowed_names \in {GlobalEventName, NetworkEventName}
    /\ InitContext
    /\ InitCodec

\* One name of each namespace.
NamespaceNames == {"message", "init_network_context"}
\* The decorator's default priority and the priority of its core().
DecoratorPriorities == {DEFAULT, CORE}
Plugins == 1..NumPlugins

NextNamespace ==
    \/ \E n \in NamespaceNames, c \in Plugins, p \in DecoratorPriorities : Decorate(n, c, p)
    \/ \E n \in NamespaceNames, c \in Plugins, p \in DecoratorPriorities : Register(n, c, p)
    \/ \E n \in NamespaceNames, c \in Plugins : Unregister(n, c)

\* A global or a per-network dispatcher whose handlers are registered through
\* its decorator or through register.
SpecNamespace == InitNamespace /\ [][NextNamespace]_vars

\* ------------------------------------------------- ShadowAttributesMixin

\* What the object has without the table: the attributes of the instance
\* (its __dict__, filled by __init__) and those of its class (its methods).
InstanceAttributes == {"_added_attributes"}
ClassAttributes == {"add_attribute"}
DeclaredAttributes == InstanceAttributes \cup ClassAttributes

\* The names plugins call the capabilities they add.
PluginNames == {"greet", "send_ctcp"}
AttributeNames == PluginNames \cup DeclaredAttributes

\* Python values: a plain value, a function (callable, with a __name__), the
\* functools.partial(function, self) that add_method stores, a str, None,
\* and the value of a declared attribute.
Value(k) == <<"value", k>>
Function(f) == <<"function", f>>
Partial(f) == <<"partial", f[2]>>
None == <<"None", 0>>
Declared == <<"declared", 0>>
Values == {Value(k) : k \in 1..NumValues}
\* function.__name__ of the functions plugins add as methods
FunctionNames == <<"greet", "add_attribute">>
Functions == {Function(f) : f \in 1..Len(FunctionNames)}
callable(x) == x[1] = "function"
NameOf(f) == FunctionNames[f[2]]

\* hasattr(self, name): the normal lookup finds a declared attribute, and
\* __getattr__ finds an added one.
hasattr(added, name) == name \in DeclaredAttributes \/ name \in DOMAIN added

\* del d[name]
DelKey(added, name) ==
    IF DOMAIN added \ {name} = {} THEN <<>>
    ELSE [n \in DOMAIN added \ {name} |-> added[n]]

\* add_attribute that looks at the table alone, not at hasattr
add_attribute_table_only(added, name, value) ==
    IF name \in DOMAIN added
    THEN [ok |-> FALSE, added |-> added]
    ELSE [ok |-> TRUE, added |-> (name :> value) @@ added]

\* add_attribute that stores without looking
add_attribute_overwrite(added, name, value) ==
    [ok |-> TRUE, added |-> (name :> value) @@ added]

\* add_attribute: ok = FALSE stands for the KeyError "is already defined"
add_attribute(added, name, value) ==
    IF hasattr(added, name) \/ name \in DOMAIN added
    THEN [ok |-> FALSE, added |-> added]
    ELSE [ok |-> TRUE, added |-> (name :> value) @@ added]

\* set_attribute that stores without its second check
set_attribute_creates(added, name, value) ==
    IF name \in InstanceAttributes
    THEN [ok |-> FALSE, added |-> added]
    ELSE [ok |-> TRUE, added |-> (name :> value) @@ added]

\* set_attribute: ok = FALSE stands for either KeyError
set_attribute(added, name, value) ==
    IF name \in InstanceAttributes THEN [ok |-> FALSE, added |-> added]
    ELSE IF name \notin DOMAIN added THEN [ok |-> FALSE, added |-> added]
    ELSE [ok |-> TRUE, added |-> [added EXCEPT ![name] = value]]

\* has_attribute
has_attribute(added, name) == name \in InstanceAttributes \/ name \in DOMAIN added

\* add_method(name_or_function, function): the name is the first argument,
\* or the __name__ of the function given alone; ok = FALSE with name "-"
\* stands for the ValueError, with a name for add_attribute's KeyError.
add_method(added, name_or_function, function) ==
    IF callable(name_or_function)
    THEN IF callable(function)
         THEN [ok |-> FALSE, added |-> added, name |-> "-", value |-> None]
         ELSE [name |-> NameOf(name_or_function), value |-> Partial(name_or_function)]
              @@ add_attribute(added, NameOf(name_or_function), Partial(name_or_function))
    ELSE IF ~callable(function)
         THEN [ok |-> FALSE, added |-> added, name |-> "-", value |-> None]
         ELSE [name |-> name_or_function[2], value |-> Partial(function)]
              @@ add_attribute(added, name_or_function[2], Partial(function))

\* remove_attribute that forgets every added attribute
remove_attribute_clear(added, name) ==
    IF name \notin DOMAIN added
    THEN [ok |-> FALSE, added |-> added]
    ELSE [ok |-> TRUE, added |-> <<>>]

\* remove_attribute: ok = FALSE stands for the KeyError "is not defined"
remove_attribute(added, name) ==
    IF name \notin DOMAIN added
    THEN [ok |-> FALSE, added |-> added]
    ELSE [ok |-> TRUE, added |-> DelKey(added, name)]

\* getattr(self, name): the normal lookup first, then __getattr__, which
\* reads the table; ok = FALSE stands for its AttributeError.
getattr(added, name) ==
    IF name \in DeclaredAttributes THEN [ok |-> TRUE, value |-> Declared]
    ELSE IF name \in DOMAIN added THEN [ok |-> TRUE, value |-> added[name]]
    ELSE [ok |-> FALSE, value |-> None]

\* The dispatcher is left alone by the calls on the context.
ContextOnly ==
    UNCHANGED <<event_map, last, pc, dname, it, priority, handlers, linked, tasks, round, ret,
                obs, ever, allowed_names, fn, arg, out, log>>

CalledOn(op, name, value, ok) == [op |-> op, name |-> name, value |-> value, ok |-> ok]

AddAttribute(name, value) ==
    /\ LET r == add_attribute(added_attributes, name, value)
       IN  /\ added_attributes' = r.added
           /\ call' = CalledOn("add_attribute", name, value, r.ok)
    /\ ContextOnly

AddMethod(name_or_function, function) ==
    /\ LET r == add_method(added_attributes, name_or_function, function)
       IN  /\ added_attributes' = r.added
           /\ call' = CalledOn("add_method", r.name, r.value, r.ok)
    /\ ContextOnly

SetAttribute(name, value) ==
    /\ LET r == set_attribute(added_attributes, name, value)
       IN  /\ added_attributes' = r.added
           /\ call' = CalledOn("set_attribute", name, value, r.ok)
    /\ ContextOnly

RemoveAttribute(name) ==
    /\ LET r == remove_attribute(added_attributes, name)
       IN  /\ added_attributes' = r.added
           /\ call' = CalledOn("remove_attribute", name, None, r.ok)
    /\ ContextOnly

GetAttr(name) ==
    /\ LET r == getattr(added_attributes, name)
       IN  call' = CalledOn("getattr", name, r.value, r.ok)
    /\ UNCHANGED added_attributes
    /\ ContextOnly

\* The first argument of add_method: a name or a function.
NameArguments == {<<"str", n>> : n \in AttributeNames}

NextContext ==
    \/ \E n \in AttributeNames, v \in Values : AddAttribute(n, v)
    \/ \E a \in NameArguments \cup Functions, f \in Functions \cup {None} : AddMethod(a, f)
    \/ \E n \in AttributeNames, v \in Values : SetAttribute(n, v)
    \/ \E n \in AttributeNames : RemoveAttribute(n)
    \/ \E n \in AttributeNames : GetAttr(n)

\* A context whose capabilities plugins add, set, remove and look up, one
\* call at a time.
SpecContext == Init /\ [][NextContext]_vars

\* ------------------------------------------------------------------ str

\* A str is the sequence of its characters, a character a string of length one.
RECURSIVE Strings(_, _)
Strings(alphabet, n) ==
    IF n = 0 THEN {<<>>}
    ELSE LET shorter == Strings(alphabet, n - 1)
         IN  shorter \cup {Append(t, c) : t \in shorter, c \in alphabet}

\* The dispatcher and the context are left alone by the codec.
CodecOnly ==
    UNCHANGED <<event_map, last, pc, dname, it, priority, handlers, linked, tasks, round, ret,
                obs, ever, allowed_names, added_attributes, call, log>>

\* A dispatcher and a context as constructed, next to the codec.
InitRest ==
    /\ InitDispatcher
    /\ allowed_names = NetworkEventName
    /\ InitContext

\* -------------------------------------- Message.escape, Message.unescape

\* _ESCAPE_SEQUENCES
ESCAPE_SEQUENCES ==
    ("n" :> "\n") @@ ("r" :> "\r") @@ ("s" :> " ") @@ ("\\" :> "\\") @@ (":" :> ";")

\* sequences = {v: k for k, v in _ESCAPE_SEQUENCES.items()}
sequences ==
    [v \in {ESCAPE_SEQUENCES[k] : k \in DOMAIN ESCAPE_SEQUENCES} |->
        CHOOSE k \in DOMAIN ESCAPE_SEQUENCES : ESCAPE_SEQUENCES[k] = v]

\* escape: a character of the table becomes a backslash and its key
RECURSIVE escape(_)
escape(value) ==
    IF value = <<>> THEN <<>>
    ELSE (IF Head(value) \in DOMAIN sequences
          THEN <<"\\", sequences[Head(value)]>>
          ELSE <<Head(value)>>) \o escape(Tail(value))

\* unescape's loop taking the character after a backslash as it is
RECURSIVE unescape_loop_plain(_, _)
unescape_loop_plain(value, esc) ==
    IF value = <<>> THEN <<>>
    ELSE IF esc THEN <<Head(value)>> \o unescape_loop_plain(Tail(value), FALSE)
    ELSE IF Head(value) = "\\" THEN unescape_loop_plain(Tail(value), TRUE)
    ELSE <<Head(value)>> \o unescape_loop_plain(Tail(value), FALSE)

\* The for loop of unescape, esc being its flag `escape`: a backslash is
\* dropped and sets the flag; the character after it is looked up in the
\* table (and kept as it is when the table lacks it).
RECURSIVE unescape_loop(_, _)
unescape_loop(value, esc) ==
    IF value = <<>> THEN <<>>
    ELSE IF esc
    THEN <<IF Head(value) \in DOMAIN ESCAPE_SEQUENCES
           THEN ESCAPE_SEQUENCES[Head(value)]
           ELSE Head(value)>> \o unescape_loop(Tail(value), FALSE)
    ELSE IF Head(value) = "\\" THEN unescape_loop(Tail(value), TRUE)
    ELSE <<Head(value)>> \o unescape_loop(Tail(value), FALSE)

unescape(value) == unescape_loop(value, FALSE)

\* The five characters the table maps, the letters it maps them to, and a
\* letter it does not know.
ValueChars == {"\n", "\r", " ", "\\", ";", "n", ":", "a"}

InitEscape ==
    /\ InitRest
    /\ fn = <<>>
    /\ arg \in Strings(ValueChars, MaxValueLen)
    /\ out = <<>>

\* escape(arg)
Escape ==
    /\ fn = <<>>
    /\ fn' = <<"escape">>
    /\ out' = escape(arg)
    /\ UNCHANGED arg
    /\ CodecOnly

\* unescape(arg), or unescape of what escape returned
Unescape ==
    /\ fn \in {<<>>, <<"escape">>}
    /\ fn' = Append(fn, "unescape")
    /\ out' = unescape(IF fn = <<>> THEN arg ELSE out)
    /\ UNCHANGED arg
    /\ CodecOnly

NextEscape == Escape \/ Unescape

\* Tag values, escaped and unescaped.
SpecEscape == InitEscape /\ [][NextEscape]_vars

\* ---------------------------------------------------------------- Prefix

\* Where a str or None may stand: None is the empty tuple, a str s is <<s>>.
NoStr == <<>>
Opt(t) == <<t>>
\* The truth value of such a value: None and '' are false.
Truthy(o) == o # NoStr /\ o[1] # <<>>

\* sep in t
In(sep, t) == \E i \in 1..Len(t) : t[i] = sep

\* t.lstrip(c)
RECURSIVE lstrip(_, _)
lstrip(t, c) == IF t # <<>> /\ Head(t) = c THEN lstrip(Tail(t), c) ELSE t

\* t.split(sep, 1) for a t that holds sep: what is before the first sep, and
\* what is after it
split1(t, sep) ==
    LET i == CHOOSE k \in 1..Len(t) : t[k] = sep /\ \A j \in 1..(k - 1) : t[j] # sep
    IN  <<SubSeq(t, 1, i - 1), SubSeq(t, i + 1, Len(t))>>

\* Prefix(name, ident, host)
Prefix(name, ident, host) == [name |-> name, ident |-> ident, host |-> host]

\* Prefix.from_string
from_string(prefix) ==
    LET name == lstrip(prefix, ":")
    IN  IF In("@", name)
        THEN LET at == split1(name, "@")
             IN  IF In("!", at[1])
                 THEN LET bang == split1(at[1], "!")
                      IN  Prefix(bang[1], Opt(bang[2]), Opt(at[2]))
                 ELSE Prefix(at[1], NoStr, Opt(at[2]))
        ELSE Prefix(name, NoStr, NoStr)

\* Prefix.__str__ without its ident
str_no_ident(self) ==
    self.name \o (IF Truthy(self.host) THEN <<"@">> \o self.host[1] ELSE <<>>)

\* Prefix.__str__
str(self) ==
    self.name \o
        (IF Truthy(self.host)
         THEN (IF Truthy(self.ident) THEN <<"!">> \o self.ident[1] ELSE <<>>)
              \o <<"@">> \o self.host[1]
         ELSE <<>>)

\* A letter and the three characters the prefix parser looks for.
PrefixChars == {"n", "!", "@", ":"}
PrefixParts == Strings(PrefixChars, MaxPartLen)

InitPrefix ==
    /\ InitRest
    /\ fn = <<>>
    /\ arg \in {Prefix(n, i, h) : n \in PrefixParts,
                                  i \in {NoStr} \cup {Opt(t) : t \in PrefixParts},
                                  h \in {NoStr} \cup {Opt(t) : t \in PrefixParts}}
    /\ out = <<>>

\* str(arg)
Stringify ==
    /\ fn = <<>>
    /\ fn' = <<"__str__">>
    /\ out' = str(arg)
    /\ UNCHANGED arg
    /\ CodecOnly

\* Prefix.from_string of what str returned
FromString ==
    /\ fn = <<"__str__">>
    /\ fn' = <<"__str__", "from_string">>
    /\ out' = from_string(out)
    /\ UNCHANGED arg
    /\ CodecOnly

NextPrefix == Stringify \/ FromString

\* Prefixes, written as strings and parsed again.
SpecPrefix == InitPrefix /\ [][NextPrefix]_vars

\* ----------------------------------------------------- Message.from_line

\* t.split(None, 1): nothing for a string of whitespace; else the first
\* word, and after it the rest without its leading whitespace, if any is left
split_ws(t) ==
    LET u == lstrip(t, " ")
    IN  IF u = <<>> THEN <<>>
        ELSE LET n == IF In(" ", u) THEN Len(split1(u, " ")[1]) ELSE Len(u)
                 rest == lstrip(SubSeq(u, n + 1, Len(u)), " ")
             IN  IF rest = <<>> THEN <<SubSeq(u, 1, n)>> ELSE <<SubSeq(u, 1, n), rest>>

\* t.split(sep)
RECURSIVE split(_, _)
split(t, sep) ==
    IF In(sep, t) THEN <<split1(t, sep)[1]>> \o split(split1(t, sep)[2], sep) ELSE <<t>>

\* str.upper and str.isdigit, for the characters of the model
UPPER == ("a" :> "A") @@ ("v" :> "V")
RECURSIVE upper(_)
upper(t) ==
    IF t = <<>> THEN <<>>
    ELSE <<IF Head(t) \in DOMAIN UPPER THEN UPPER[Head(t)] ELSE Head(t)>> \o upper(Tail(t))
isdigit(t) == t # <<>> /\ \A i \in 1..Len(t) : t[i] = "1"

\* The value True of a tag without '=', where a str may stand.
TagTrue == <<>>

\* The for loop over the tags: tags[key] = value, a later tag replacing an
\* earlier one of the same key
RECURSIVE tags_loop(_, _)
tags_loop(tag_list, tags) ==
    IF tag_list = <<>> THEN tags
    ELSE LET tag == Head(tag_list)
             key == IF In("=", tag) THEN split1(tag, "=")[1] ELSE tag
             value == IF In("=", tag) THEN Opt(unescape(split1(tag, "=")[2])) ELSE TagTrue
         IN  tags_loop(Tail(tag_list), (key :> value) @@ tags)

\* The while loop over the parameters: a leading ':' makes the rest of the
\* line the last parameter
RECURSIVE params_loop(_)
params_loop(line) ==
    IF line = <<>> THEN <<>>
    ELSE IF Head(line) = ":" THEN <<Tail(line)>>
    ELSE LET parts == split_ws(line)
         IN  <<parts[1]>> \o (IF Len(parts) = 2 THEN params_loop(parts[2]) ELSE <<>>)

\* Message(command, prefix=, params=, tags=, raw_line=); reply tells that the
\* command is a numeral, which is looked up in ServerReply and kept as it
\* is when ServerReply lacks it.
Message(command, prefix, params, tags, raw_line) ==
    [ok |-> TRUE, command |-> command, reply |-> isdigit(command), prefix |-> prefix,
     params |-> params, tags |-> tags, raw_line |-> raw_line]

\* The ValueError of an unpacking that finds too few values.
ValueError ==
    [ok |-> FALSE, command |-> <<>>, reply |-> FALSE, prefix |-> NoStr,
     params |-> <<>>, tags |-> <<>>, raw_line |-> <<>>]

\* from_line: the tag segment, the prefix segment, the command, the
\* parameters; each `x, line = line.split(None, 1)` needs two parts and
\* `command, *line = ...` needs one.
from_line(line) ==
    LET tagged == line # <<>> /\ Head(line) = "@"
        parts1 == split_ws(line)
    IN  IF tagged /\ Len(parts1) < 2 THEN ValueError
        ELSE
    LET tags == IF tagged THEN tags_loop(split(Tail(parts1[1]), ";"), <<>>) ELSE <<>>
        line1 == IF tagged THEN parts1[2] ELSE line
        prefixed == line1 # <<>> /\ Head(line1) = ":"
        parts2 == split_ws(line1)
    IN  IF prefixed /\ Len(parts2) < 2 THEN ValueError
        ELSE
    LET prefix == IF prefixed THEN <<from_string(parts2[1])>> ELSE NoStr
        line2 == IF prefixed THEN parts2[2] ELSE line1
        parts3 == split_ws(line2)
    IN  IF parts3 = <<>> THEN ValueError
        ELSE Message(upper(parts3[1]), prefix,
                     IF Len(parts3) = 2 THEN params_loop(parts3[2]) ELSE <<>>,
                     tags, line)

\* The characters the line parser looks for, a letter and a digit.
LineChars == {"@", ":", " ", "=", ";", "a", "1"}

InitLine ==
    /\ InitRest
    /\ fn = <<>>
    /\ arg \in Strings(LineChars, MaxLineLen)
    /\ out = <<>>

\* Message.from_line(arg)
FromLine ==
    /\ fn = <<>>
    /\ fn' = <<"from_line">>
    /\ out' = from_line(arg)
    /\ UNCHANGED arg
    /\ CodecOnly

NextLine == FromLine

\* Lines, parsed.
SpecLine == InitLine /\ [][NextLine]_vars

\* ------------------------------------------------------------- plugins/ctcp

\* The character '\x01'.
X01 == "\\x01"

PRIVMSG == <<"P", "R", "I", "V", "M", "S", "G">>
NOTICE == <<"N", "O", "T", "I", "C", "E">>

\* t.rstrip()
RECURSIVE rstrip(_)
rstrip(t) ==
    IF t # <<>> /\ t[Len(t)] = " " THEN rstrip(SubSeq(t, 1, Len(t) - 1)) ELSE t

\* t.split(): the words of t
RECURSIVE split_words(_)
split_words(t) ==
    LET parts == split_ws(t)
    IN  IF parts = <<>> THEN <<>>
        ELSE <<parts[1]>> \o (IF Len(parts) = 2 THEN split_words(parts[2]) ELSE <<>>)

\* What from_message ends with: None, a CtcpMessage, or the IndexError of
\* msg.params[1].
Extracted(kind, command, prefix, params) ==
    [kind |-> kind, command |-> command, prefix |-> prefix, params |-> params]
NoCtcp == Extracted("None", <<>>, NoStr, <<>>)
IndexError == Extracted("IndexError", <<>>, NoStr, <<>>)

\* CtcpMessage.from_message
from_message(msg) ==
    IF msg.command # PRIVMSG THEN NoCtcp
    ELSE IF Len(msg.params) < 2 THEN IndexError
    ELSE LET line == msg.params[2]
         IN  IF line = <<>> \/ Head(line) # X01 \/ line[Len(line)] # X01 THEN NoCtcp
             ELSE LET inner == rstrip(SubSeq(line, 2, Len(line) - 1))
                      parts == IF In(" ", inner) THEN split1(inner, " ") ELSE <<inner>>
                  IN  IF inner = <<>> THEN NoCtcp
                      ELSE IF parts[1] = <<>> THEN NoCtcp
                      ELSE Extracted("CtcpMessage", upper(parts[1]), msg.prefix,
                                     IF Len(parts) = 2 THEN split_words(parts[2]) ELSE <<>>)

\* '{}'.format(x) for a str or None
format(o) == IF o = NoStr THEN <<"N", "o", "n", "e">> ELSE o[1]

\* send_ctcp and send_ctcp_reply: the text handed to ctx.send_msg and to
\* ctx.send_notice
send_ctcp(command, text) ==
    <<X01>> \o command \o format(IF Truthy(text) THEN Opt(<<" ">> \o text[1]) ELSE text)
        \o <<X01>>

\* The characters of a second parameter: the control byte, whitespace, a letter.
PayloadChars == {X01, " ", "v"}
\* Who a message is sent to, and who it is from.
Target == <<"#">>
Source == Opt(Prefix(<<"n">>, NoStr, NoStr))

\* Messages with no, one and two parameters.
InitExtract ==
    /\ InitRest
    /\ fn = <<>>
    /\ arg \in {Message(c, Source, ps, <<>>, <<>>) :
                    c \in {PRIVMSG, NOTICE},
                    ps \in {<<>>, <<Target>>}
                           \cup {<<Target, t>> : t \in Strings(PayloadChars, MaxPayloadLen)}}
    /\ out = <<>>

\* A command, and a text or None.
InitWrap ==
    /\ InitRest
    /\ fn = <<>>
    /\ arg \in [command : Strings({"v", "V"}, MaxTextLen) \ {<<>>},
                 text : {NoStr} \cup {Opt(t) : t \in Strings({" ", "v"}, MaxTextLen)}]
    /\ out = <<>>

\* send_ctcp(ctx, Target, arg.command, arg.text)
SendCtcp ==
    /\ fn = <<>>
    /\ fn' = <<"send_ctcp">>
    /\ out' = send_ctcp(arg.command, arg.text)
    /\ UNCHANGED arg
    /\ CodecOnly

\* CtcpMessage.from_message of arg, or of the PRIVMSG that carries what
\* send_ctcp handed to ctx.send_msg
FromMessage ==
    /\ fn \in {<<>>, <<"send_ctcp">>}
    /\ fn' = Append(fn, "from_message")
    /\ out' = from_message(IF fn = <<>> THEN arg
                           ELSE Message(PRIVMSG, Source, <<Target, out>>, <<>>, <<>>))
    /\ UNCHANGED arg
    /\ CodecOnly

NextExtract == FromMessage

\* Messages, looked at for CTCP.
SpecExtract == InitExtract /\ [][NextExtract]_vars

NextWrap == SendCtcp \/ (fn # <<>> /\ FromMessage)

\* CTCP commands, wrapped, sent and extracted by the receiver.
SpecWrap == InitWrap /\ [][NextWrap]_vars

\* ---------------------------------------------------------------- claims

\* The registrations of a tier list: (handler, priority) for each handler of each tier.
RegsOf(list) == UNION {{<<h, list[i].prio>> : h \in list[i].set} : i \in 1..Len(list)}

\* The registrations of the whole table: (name, handler, priority).
Regs(em) == UNION {{<<n, r[1], r[2]>> : r \in RegsOf(em[n])} : n \in DOMAIN em}

\* The tiers of a list that hold obj.
Holders(list, obj) == {i \in 1..Len(list) : obj \in list[i].set}

AtMostOneTier ==
    \A n \in DOMAIN event_map : \A h \in Coroutines :
        Cardinality(Holders(event_map[n], h)) <= 1

DuplicateRegisterFails ==
    (last'.op = "register" /\ Contains(Lookup(event_map, last'.name), last'.obj))
        => (~last'.ok /\ event_map' = event_map)

\* C4: register fails when the handler is already registered for the event
\* name, at the same or another priority, and the failed call leaves the
\* table as it was; so in every state a handler is in at most one tier of a name.
C4_DuplicateRegister == []AtMostOneTier /\ [][DuplicateRegisterFails]_vars

\* C4's case: a register call has just failed for a handler that the name
\* holds at another priority than the one asked for.
C4_Witness ==
    /\ last.op = "register"
    /\ ~last.ok
    /\ \E p \in Priorities \ {last.prio} :
            <<last.obj, p>> \in RegsOf(Lookup(event_map, last.name))

UnregisterRemovesExactly ==
    last'.op = "unregister" =>
        LET mine == {r \in Regs(event_map) : r[1] = last'.name /\ r[2] = last'.obj}
        IN  IF mine # {}
            THEN /\ last'.ok
                 /\ Cardinality(mine) = 1
                 /\ Regs(event_map') = Regs(event_map) \ mine
            ELSE /\ ~last'.ok
                 /\ Regs(event_map') = Regs(event_map)

\* C5: unregister removes exactly the handler from the tier that holds it
\* under the name, and every other handler keeps its name and priority; when
\* the handler is not registered under the name the call fails and the
\* registrations stay as they were.
C5_Unregister == [][UnregisterRemovesExactly]_vars

\* C5's case: an unregister call has just succeeded and taken a handler out
\* of a tier that other handlers share, while the other name holds it still.
C5_Witness ==
    /\ last.op = "unregister"
    /\ last.ok
    /\ last.name = "message"
    /\ Cardinality(RegsOf(Lookup(event_map, "message"))) = 2
    /\ Len(Lookup(event_map, "message")) = 1
    /\ \E p \in Priorities : <<last.obj, p>> \in RegsOf(Lookup(event_map, "raw_line"))

\* C7: the tier list of every event name is strictly descending by priority,
\* so no two tiers of a name share a priority.
C7_StrictlyDescending ==
    \A n \in DOMAIN event_map :
        \A i, j \in 1..Len(event_map[n]) :
            i < j => event_map[n][i].prio > event_map[n][j].prio

\* C7's case: tiers were inserted above, below and, by the last call, between
\* the tiers that were there.
C7_Witness ==
    /\ last.op = "register"
    /\ last.ok
    /\ last.prio = CORE
    /\ Len(Lookup(event_map, last.name)) = 3
    /\ Cardinality(RegsOf(Lookup(event_map, last.name))) = 3

\* ----------------------------------------------------- claims: namespace

ForeignRegistrationFails ==
    (last'.op \in {"register", "decorator"} /\ last'.name \notin allowed_names)
        => (~last'.ok /\ event_map' = event_map)

\* C11: a dispatcher accepts registrations only for the event names of its
\* own namespace: a registration under a name outside it fails, through
\* register as through the decorator, and leaves the table as it was.
C11_NamespaceEnforced == [][ForeignRegistrationFails]_vars

DecoratorRejectsForeign ==
    (last'.op = "decorator" /\ last'.name \notin allowed_names)
        => (~last'.ok /\ event_map' = event_map)

\* C11 for the decorator alone.
DecoratorEnforced == [][DecoratorRejectsForeign]_vars

\* ------------------------------------------------------- claims: context

AddConflictFails ==
    (/\ call'.op \in {"add_attribute", "add_method"}
     /\ call'.name \in DeclaredAttributes \cup DOMAIN added_attributes)
        => /\ ~call'.ok
           /\ added_attributes' = added_attributes
           /\ getattr(added_attributes', call'.name) = getattr(added_attributes, call'.name)

\* C12: add fails when the name exists already, as a declared attribute of
\* the object or as a capability added before; the failing add does not
\* overwrite: lookup of the name yields what it yielded before, whichever of
\* two adds of the name came first.
C12_AddConflict == [][AddConflictFails]_vars

\* C12's case: an add of a name has just failed while the table holds the
\* name with the other value, the one added first.
C12_Witness ==
    /\ call.op = "add_attribute"
    /\ ~call.ok
    /\ call.name \in DOMAIN added_attributes
    /\ added_attributes[call.name] \in Values \ {call.value}

RemoveRetractsExactly ==
    call'.op = "remove_attribute" =>
        IF call'.name \in DOMAIN added_attributes
        THEN /\ call'.ok
             /\ DOMAIN added_attributes' = DOMAIN added_attributes \ {call'.name}
             /\ \A n \in DOMAIN added_attributes' : added_attributes'[n] = added_attributes[n]
        ELSE /\ ~call'.ok
             /\ added_attributes' = added_attributes

AddAfterRemove ==
    (/\ call.op = "remove_attribute" /\ call.ok
     /\ call'.op \in {"add_attribute", "add_method"} /\ call'.name = call.name)
        => /\ call'.ok
           /\ getattr(added_attributes', call'.name) = [ok |-> TRUE, value |-> call'.value]

\* C13: remove retracts exactly the named capability and leaves the others
\* as they were; an add of the name right after succeeds and lookup yields
\* the new value; remove of a name that is no added capability fails and
\* leaves the table as it was.
C13_Remove == [][RemoveRetractsExactly /\ AddAfterRemove]_vars

\* C13's case: a remove has just retracted one of two capabilities.
C13_Witness ==
    /\ call.op = "remove_attribute"
    /\ call.ok
    /\ DOMAIN added_attributes = PluginNames \ {call.name}

SetChangesOnly ==
    call'.op = "set_attribute" =>
        IF call'.name \in DOMAIN added_attributes
        THEN /\ call'.ok
             /\ added_attributes' = [added_attributes EXCEPT ![call'.name] = call'.value]
        ELSE /\ ~call'.ok
             /\ added_attributes' = added_attributes

\* C14: set changes the value of a capability that is in the table and
\* nothing else; for a name that is not in the table (never added, or
\* removed since) it fails and leaves the table as it was.
C14_Set == [][SetChangesOnly]_vars

\* C14's case: a set of a name that was added and removed has just failed,
\* and the table, which holds another capability, does not hold the name.
C14_Witness ==
    /\ call.op = "set_attribute"
    /\ ~call.ok
    /\ call.name \in PluginNames \ DOMAIN added_attributes
    /\ added_attributes # <<>>

\* --------------------------------------------------------- claims: codec

\* C15: unescape(escape(s)) = s for every string s over printable characters
\* and the five characters the table maps (newline, carriage return, space,
\* backslash, semicolon).
C15_EscapeRoundTrip == fn = <<"escape", "unescape">> => out = arg

\* C15's case: a value that holds a backslash before a letter of the table,
\* and a character of the table, has gone through escape and unescape.
C15_Witness ==
    /\ fn = <<"escape", "unescape">>
    /\ \E c \in {"\n", "\r", " ", ";"} : arg = <<"\\", "n", c>>
    /\ out = arg

\* C16: parsing the string form of a prefix yields the prefix, for every
\* prefix made of a name, an optional ident and an optional host.
C16_PrefixRoundTrip == fn = <<"__str__", "from_string">> => out = arg

\* The prefixes of the forms name, name@host and name!ident@host: an ident
\* only with a host; ident and host not empty when given; a name that does
\* not begin with ':', holds no '@' and, before a host, no '!'; an ident
\* that holds no '@'.
Grammatical(p) ==
    /\ ~In("@", p.name)
    /\ p.name = <<>> \/ Head(p.name) # ":"
    /\ p.host # Opt(<<>>)
    /\ p.ident # Opt(<<>>)
    /\ p.host = NoStr => p.ident = NoStr
    /\ p.host # NoStr => ~In("!", p.name)
    /\ p.ident # NoStr => ~In("@", p.ident[1])

\* C16, amended: parsing the string form of a prefix yields the prefix, for
\* every prefix of the forms name, name@host and name!ident@host.
C16_GrammaticalRoundTrip ==
    (fn = <<"__str__", "from_string">> /\ Grammatical(arg)) => out = arg

\* C16's case: a prefix with name, ident and host was written and parsed.
C16_Witness ==
    /\ fn = <<"__str__", "from_string">>
    /\ arg = Prefix(<<"n">>, Opt(<<"!">>), Opt(<<"@">>))
    /\ out = arg

\* The string form loses what makes a prefix not Grammatical: no other
\* prefix comes back from the parser as it was.
OnlyGrammaticalRoundTrip ==
    (fn = <<"__str__", "from_string">> /\ out = arg) => Grammatical(arg)

\* C17: the line parser is total: for every line, the empty line, a line
\* of a tag segment alone and a line of a prefix segment alone included, it
\* returns a Message; without a tag segment the tags are empty, without a
\* prefix segment there is no prefix, without parameters the list is empty.
C17_LenientTotal ==
    fn = <<"from_line">> =>
        /\ out.ok
        /\ (arg = <<>> \/ Head(arg) # "@") => out.tags = <<>>
        /\ ~In(":", arg) => out.prefix = NoStr
        /\ Len(split_ws(arg)) < 2 => out.params = <<>>

\* The lines that hold a command after their tag and prefix segments are
\* parsed, with the empty defaults for what they lack.
ParsedWithDefaults ==
    (fn = <<"from_line">> /\ out.ok) =>
        /\ out.command # <<>>
        /\ out.raw_line = arg
        /\ (arg = <<>> \/ Head(arg) # "@") => out.tags = <<>>
        /\ ~In(":", arg) => out.prefix = NoStr
        /\ Len(split_ws(arg)) < 2 => out.params = <<>>

\* ---------------------------------------------------------- claims: ctcp

\* A chat message with at least two parameters, the second wrapped in the
\* control byte at both ends with something in between.
Wrapped(msg) ==
    /\ msg.command = PRIVMSG
    /\ Len(msg.params) >= 2
    /\ Len(msg.params[2]) >= 3
    /\ Head(msg.params[2]) = X01
    /\ msg.params[2][Len(msg.params[2])] = X01

\* C18: from_message returns None, and does not fail, for every message
\* that is not a chat message with at least two parameters whose second
\* parameter is wrapped; so for a chat message with fewer than two
\* parameters and for one whose second parameter is plain text.
C18_ExtractNone ==
    (fn = <<"from_message">> /\ ~Wrapped(arg)) => out.kind = "None"

\* C18 for the messages with two parameters.
ExtractNoneOfTwo ==
    (fn = <<"from_message">> /\ ~Wrapped(arg) /\ Len(arg.params) >= 2) => out.kind = "None"

\* C19: send_ctcp wraps the command, then a space and the text when a text
\* is given, in the control byte; with no text, the command alone; and
\* from_message gets the upper-cased command and the words of the text
\* out of the chat message that carries it.
C19_Wrap ==
    /\ fn = <<"send_ctcp">> =>
            out = <<X01>> \o arg.command
                    \o (IF Truthy(arg.text) THEN <<" ">> \o arg.text[1] ELSE <<>>) \o <<X01>>
    /\ fn = <<"send_ctcp", "from_message">> =>
            /\ out.kind = "CtcpMessage"
            /\ out.command = upper(arg.command)
            /\ out.params = (IF arg.text = NoStr THEN <<>> ELSE split_words(arg.text[1]))

\* C19 for the calls that give a text, be it the empty one.
WrapOfText == arg.text # NoStr => C19_Wrap

\* ------------------------------------------------------ claims: dispatch

\* The tasks whose handler was invoked (the task ran its first step).
Invoked == {i \in DOMAIN tasks : tasks[i].st # "pending"}
InvokedHandlers == {tasks[i].h : i \in Invoked}

\* A handler returned the consume signal in this dispatch.
Consumed == \E i \in DOMAIN tasks : tasks[i].res = "EAT"

\* The registrations the dispatch started with that no handler's call has
\* touched since: they are registered from its start to its return.
Standing == {r \in RegsOf(obs.table0) : r[1] \notin obs.touched}

\* No handler called register or unregister with success during the dispatch.
Quiet == obs.nreg = 0 /\ obs.nunreg = 0

\* Handlers are invoked tier by tier in descending priority.
Descending ==
    \A i, j \in Invoked : i < j => tasks[i].prio >= tasks[j].prio

\* Every handler registered throughout the dispatch was invoked.
AllInvoked == \A r \in Standing : r[1] \in InvokedHandlers

\* C1: a dispatch invokes the tiers in descending priority order, and when
\* no handler consumes, every registered handler of the event is invoked.
C1_PriorityOrder ==
    pc = "returned" => Descending /\ (~Consumed => AllInvoked)

\* C2: when a handler of the tier with priority p returns the consume
\* signal, no handler of a tier below p is invoked in that dispatch and
\* dispatch returns "consumed".
C2_Consume ==
    pc = "returned" =>
        \A i \in DOMAIN tasks : tasks[i].res = "EAT" =>
            /\ ret = "EAT"
            /\ \A j \in Invoked : tasks[j].prio >= tasks[i].prio

\* C3: a handler that raises is isolated: its siblings run to completion,
\* the lower tiers are still dispatched unless a handler consumed, and
\* dispatch returns to its caller with a result.
C3_RaiseIsolated ==
    (pc = "returned" /\ \E i \in DOMAIN tasks : tasks[i].res = "Exc") =>
        /\ ret \in {"None", "EAT"}
        /\ \A j \in DOMAIN tasks : tasks[j].st = "done"
        /\ ~Consumed => AllInvoked

\* C1, C2 and C3 for the dispatches during which no handler changes the table.
QuietDispatch ==
    Quiet => C1_PriorityOrder /\ C2_Consume /\ C3_RaiseIsolated

NoEmptyTier ==
    \A n \in DOMAIN event_map :
        \A i \in 1..Len(event_map[n]) : event_map[n][i].set # {}

\* C6: no tier of any event name has an empty handler set, and a dispatch
\* of an event that has no handler (never had one, or all were
\* unregistered) invokes nothing and returns "not consumed".
C6_NoEmptyTier ==
    /\ NoEmptyTier
    /\ (pc = "returned" /\ RegsOf(obs.table0) = {}) => (tasks = <<>> /\ ret = "None")

\* C6's case: the event had handlers, all were unregistered, and a dispatch
\* of it has returned.
C6_Witness ==
    /\ pc = "returned"
    /\ dname \in ever
    /\ dname \in DOMAIN event_map
    /\ event_map[dname] = <<>>
    /\ obs.table0 = <<>>
    /\ ret = "None"

\* C8: when a handler calls unregister during the dispatch (and none calls
\* register), every handler that is still registered is invoked in that
\* dispatch unless a handler consumed the event: no tier is skipped.
C8_UnregisterInFlight ==
    (pc = "returned" /\ obs.nunreg > 0 /\ obs.nreg = 0 /\ ~Consumed) => AllInvoked

\* C9: when a handler calls register during the dispatch (and none calls
\* unregister), no handler is invoked more than once in that dispatch.
C9_RegisterInFlight ==
    (obs.nreg > 0 /\ obs.nunreg = 0) =>
        \A i, j \in Invoked : tasks[i].h = tasks[j].h => i = j

\* C20: dispatch returns "consumed" exactly when a handler it invoked
\* returned the consume signal, and "not consumed" otherwise, whatever
\* handlers raised; when a handler of a tier consumed, no handler of a lower
\* tier was invoked, a raising sibling notwithstanding.
C20_ResultIsConsume ==
    pc = "returned" =>
        /\ ret = "EAT" <=> Consumed
        /\ \A i, j \in DOMAIN tasks :
                (tasks[i].res = "EAT" /\ tasks[j].prio < tasks[i].prio) => j \notin Invoked

\* C20 for the dispatches during which no handler changes the table.
QuietResult == Quiet => C20_ResultIsConsume

\* A tier of a raising and a consuming handler was dispatched and no
\* handler changed the table.
QuietResultCase ==
    /\ pc = "returned"
    /\ Quiet
    /\ \E i, j \in DOMAIN tasks :
            /\ tasks[i].round = tasks[j].round
            /\ tasks[i].res = "Exc"
            /\ tasks[j].res = "EAT"

\* The tier the dispatch is suspended on, as the tier list holds it.
CurrentTier ==
    {event_map[dname][i] : i \in {k \in 1..Len(Lookup(event_map, dname)) :
                                      event_map[dname][k].prio = priority}}

Recognized == {"None", "EAT", "NONE"}

\* C21: when a dispatch has returned, a handler's return value was reported
\* as an unrecognized return value exactly when it is neither None, nor
\* ReturnValue.EAT, nor ReturnValue.NONE, and the dispatch returned EAT
\* exactly when a handler returned ReturnValue.EAT.
C21_UnrecognizedReported ==
    pc = "returned" =>
        /\ \A i \in DOMAIN tasks :
                tasks[i].res # "Exc" =>
                    (<<"warning", i>> \in log <=> tasks[i].res \notin Recognized)
        /\ ret = "EAT" <=> \E i \in DOMAIN tasks : tasks[i].res = "EAT"

\* ------------------------------------------------- claims: cancellation

\* Task i ends in this step by failing or by returning ReturnValue.EAT.
FailsOrConsumes(i) ==
    /\ tasks[i].st = "running"
    /\ tasks'[i].st = "done"
    /\ tasks'[i].res \in {"Exc", "EAT"}

\* Task j is as it was, or has made a step of its own.
Undisturbed(j) ==
    \/ tasks'[j] = tasks[j]
    \/ tasks[j].st = "pending" /\ tasks'[j].st = "running"
    \/ tasks[j].st = "running" /\ tasks'[j].st = "done"

\* C22: while a dispatch is awaiting its handlers, a step in which a handler
\* fails or returns the consume signal leaves every other task as it was,
\* a task only ever changes by a step of its own, and when the dispatch has
\* returned every task it created is done.
C22_NoCancellation ==
    [][/\ pc = "gather" =>
            \A i \in DOMAIN tasks :
                /\ i \in DOMAIN tasks'
                /\ Undisturbed(i)
                /\ FailsOrConsumes(i) =>
                        \A j \in DOMAIN tasks \ {i} : tasks'[j] = tasks[j]
       /\ pc' = "returned" => \A i \in DOMAIN tasks' : tasks'[i].st = "done"]_vars

\* A handler has failed or consumed and a sibling of its tier, started
\* before that, is still running.
C22_Witness ==
    /\ pc = "gather"
    /\ \E i, j \in DOMAIN tasks :
            /\ i # j
            /\ tasks[i].round = tasks[j].round
            /\ tasks[i].st = "done"
            /\ tasks[i].res \in {"Exc", "EAT"}
            /\ tasks[j].st = "running"

\* ------------------------------------------------- claims: frame of dispatch

\* Two tables with the same event names and the same tiers under each.
SameTable(em1, em2) ==
    /\ DOMAIN em1 = DOMAIN em2
    /\ \A n \in DOMAIN em1 : em1[n] = em2[n]

\* C23: where no handler calls register or unregister, the registration
\* table during and after a dispatch, its event names included, is the table
\* from before the dispatch, whether the event had handlers or not and
\* whatever the handlers returned or raised.
C23_DispatchKeepsTable ==
    pc \in {"gather", "returned"} => SameTable(event_map, obs.map0)

\* A dispatch has returned in which one handler failed and one consumed.
C23_Witness ==
    /\ pc = "returned"
    /\ ret = "EAT"
    /\ dname \in DOMAIN event_map
    /\ event_map[dname] # <<>>
    /\ \E i \in DOMAIN tasks : tasks[i].res = "Exc"

\* ------------------------------------------------- claims: attribute lookup

\* The last call was a lookup, and it gave what the claim says for its name:
\* the declared attribute; else the added capability; else not found.
LookupInOrder ==
    call.op = "getattr" =>
        IF call.name \in DeclaredAttributes
        THEN call.ok /\ call.value = Declared
        ELSE IF call.name \in DOMAIN added_attributes
        THEN call.ok /\ call.value = added_attributes[call.name]
        ELSE ~call.ok

\* C24: after any sequence of add_attribute, add_method, set_attribute and
\* remove_attribute calls no name of the table of added capabilities is a
\* declared attribute of the object, and a lookup gives the declared
\* attribute first, the added capability second, and fails for a name that
\* is neither.
C24_NoShadowing ==
    /\ DOMAIN added_attributes \cap DeclaredAttributes = {}
    /\ LookupInOrder

\* Capabilities were added, and the last call tried to add one under the
\* name of a declared attribute and was refused.
C24_Witness ==
    /\ call.op \in {"add_attribute", "add_method"}
    /\ call.name \in DeclaredAttributes
    /\ ~call.ok
    /\ DOMAIN added_attributes # {}

====
